---- MODULE Spec2Model ----
(***************************************************************************)
(* tidecv/helpers.py: json_to_Data, create_filtered_Data,                  *)
(* enlarge_dataset_to_respect_TIDE and filter_dataset_to_label.            *)
(*                                                                         *)
(* Python dicts are objects with identity.  Annotation dicts live in       *)
(* `heap` (address -> dict), the nested `info` dicts in `infos`, and the   *)
(* Data containers in `data`; a dict is a function from key strings to     *)
(* values, a reference is an address.  copy(ann) allocates a new heap cell *)
(* holding the same key/value pairs, so the copy holds the same `info`     *)
(* address as the original.                                                *)
(***************************************************************************)
EXTENDS Integers, Sequences, FiniteSets, TLC

\* Longest list of records json.load returns.
MaxRecs == 2

\* Class ids and image ids the records draw from.
Classes == {5, 7}
ImageIds == {"a", "b"}

\* Python's None.
None == -1

VARIABLES
    pc,        \* where the caller is: loaded, imported, matched, returned, rerun, raised, written
    records,   \* the list json.load returned: addresses into heap
    heap,      \* annotation dicts, by address
    infos,     \* info dicts, by address
    data,      \* Data instances, by address
    gts,       \* address of the ground-truth Data (0 before the import)
    preds,     \* address of the prediction Data (0 before the import)
    call,      \* the last call: its name, its arguments, the caller's keep sets after it
    ret,       \* what the last call returned
    before     \* heap, infos and data as they were when the last step began

vars == <<pc, records, heap, infos, data, gts, preds, call, ret, before>>

----------------------------------------------------------------------------
\* Dicts, lists and sets

Range(s) == {s[i] : i \in 1..Len(s)}

Has(d, k) == k \in DOMAIN d

\* d[k] = v
Put(d, k, v) == [x \in (DOMAIN d) \cup {k} |-> IF x = k THEN v ELSE d[x]]

\* del d[k]
Del(d, k) == [x \in (DOMAIN d) \ {k} |-> d[x]]

\* d.values() as a set
Values(d) == {d[k] : k \in DOMAIN d}

\* The snapshot of memory a step starts from.
Memory == [heap |-> heap, infos |-> infos, data |-> data]

----------------------------------------------------------------------------
\* Data(name=...): a fresh container; images is a defaultdict, so an image's
\* record appears when it is first written.
NewData == [annotations |-> <<>>, classes |-> <<>>, images |-> <<>>]

\* f"Class {i}" and f"Image {i}"
ClassLabel(c) == <<"Class", c>>
ImageName(i) == <<"Image", i>>

\* for i in sorted({ann["class"] for ann in annotations}): classes[i] = f"Class {i}"
ClassesOf(h, anns) == [c \in {h[a]["class"] : a \in Range(anns)} |-> ClassLabel(c)]

\* image_ids[ann['image_id']].append(ann["_id"]) over the annotations in order,
\* then images[i]["name"] / images[i]["anns"] for every image seen.
ImagesOf(h, anns) ==
    [img \in {h[a]["image_id"] : a \in Range(anns)} |->
        [name |-> ImageName(img),
         anns |-> LET of_img == SelectSeq(anns, LAMBDA a : h[a]["image_id"] = img)
                  IN  [i \in 1..Len(of_img) |-> h[of_img[i]]["_id"]]]]

----------------------------------------------------------------------------
\* json_to_Data

\* The dicts a record at position r of the file can be.  Fields the importer
\* never reads for a record (gold of a record that is not gold, pred and
\* confidence of one that is not a prediction) are None.
RecordValues(r) ==
    {[is_gold |-> g, is_pred |-> p, gold |-> gl, pred |-> pl,
      confidence |-> IF p THEN r ELSE None,
      image_id |-> im, bbox_xywh |-> <<r, r, 1, 1>>] :
        <<g, p, gl, pl, im>> \in
            {t \in BOOLEAN \X BOOLEAN \X (Classes \cup {None}) \X (Classes \cup {None}) \X ImageIds :
                /\ (t[3] = None) = ~t[1]
                /\ (t[4] = None) = ~t[2]}}

\* The body of the ground-truth loop for the annotation at index i.
GoldFields(ann, i) ==
    LET a1 == Put(ann, "_id", i)
        a2 == Put(a1, "mask", None)
        a3 == Put(a2, "ignore", FALSE)
        a4 == Put(a3, "class", a3["gold"])
    IN  Put(a4, "bbox", a4["bbox_xywh"])

\* The body of the prediction loop for the annotation at index i.
PredFields(pred, i) ==
    LET a1 == Put(pred, "_id", i)
        a2 == Put(a1, "mask", None)
        a3 == Put(a2, "ignore", FALSE)
        a4 == Put(a3, "class", a3["pred"])
        a5 == Put(a4, "score", a4["confidence"])
    IN  Put(a5, "bbox", a5["bbox_xywh"])

\* for i, ann in enumerate(gt_annotations): the body writes into the dict itself
RECURSIVE GoldLoop(_, _, _)
GoldLoop(h, anns, i) ==
    IF i > Len(anns) THEN h
    ELSE GoldLoop([h EXCEPT ![anns[i]] = GoldFields(@, i - 1)], anns, i + 1)

\* for i, pred in enumerate(pred_annotations): likewise
RECURSIVE PredLoop(_, _, _)
PredLoop(h, anns, i) ==
    IF i > Len(anns) THEN h
    ELSE PredLoop([h EXCEPT ![anns[i]] = PredFields(@, i - 1)], anns, i + 1)

gt_annotations(h, recs) == SelectSeq(recs, LAMBDA a : h[a]["is_gold"])
pred_annotations(h, recs) == SelectSeq(recs, LAMBDA a : h[a]["is_pred"])

\* The whole of json_to_Data on the loaded list: the heap after both loops and
\* the two containers.  Each container's classes and images are built right
\* after its own loop.
json_to_Data(h, recs) ==
    LET ganns == gt_annotations(h, recs)
        h1 == GoldLoop(h, ganns, 1)
        gd == [annotations |-> ganns, classes |-> ClassesOf(h1, ganns),
               images |-> ImagesOf(h1, ganns)]
        panns == pred_annotations(h1, recs)
        h2 == PredLoop(h1, panns, 1)
        pd == [annotations |-> panns, classes |-> ClassesOf(h2, panns),
               images |-> ImagesOf(h2, panns)]
    IN  [heap |-> h2, gts |-> gd, preds |-> pd]

\* Records of one class and one image: what the enlarger's id sets depend on
\* is the flags and the match links alone.
PlainRecordValues(r) ==
    {v \in RecordValues(r) :
        /\ v["gold"] \in {None, CHOOSE c \in Classes : TRUE}
        /\ v["pred"] \in {None, CHOOSE c \in Classes : TRUE}
        /\ v["image_id"] = CHOOSE i \in ImageIds : TRUE}

\* Records tagged gold or pred but not both.
TaggedOnceRecordValues(r) ==
    {v \in RecordValues(r) : v["is_gold"] # v["is_pred"]}

\* The state after json.load: a list of at most MaxRecs records, the one at
\* position r drawn from R[r].
Loaded(R) ==
    /\ pc = "loaded"
    /\ \E n \in 0..MaxRecs :
          /\ records = [i \in 1..n |-> i]
          /\ \E h \in [1..n -> UNION {R[r] : r \in 1..MaxRecs}] :
                /\ \A r \in 1..n : h[r] \in R[r]
                /\ heap = h
    /\ infos = <<>>
    /\ data = <<>>
    /\ gts = 0
    /\ preds = 0
    /\ call = [op |-> "none"]
    /\ ret = [outs |-> <<>>, maps |-> <<>>]
    /\ before = [heap |-> <<>>, infos |-> <<>>, data |-> <<>>]

Init == Loaded([r \in 1..MaxRecs |-> RecordValues(r)])

InitPlain == Loaded([r \in 1..MaxRecs |-> PlainRecordValues(r)])

InitTaggedOnce == Loaded([r \in 1..MaxRecs |-> TaggedOnceRecordValues(r)])

Import ==
    /\ pc = "loaded"
    /\ LET r == json_to_Data(heap, records)
       IN  /\ heap' = r.heap
           /\ data' = <<r.gts, r.preds>>
           /\ gts' = 1
           /\ preds' = 2
    /\ pc' = "imported"
    /\ before' = Memory
    /\ call' = [op |-> "json_to_Data"]
    /\ UNCHANGED <<records, infos, ret>>

\* The ids of a container's annotations, as they are now.
IdsOf(h, d, x) == {h[a]["_id"] : a \in Range(d[x].annotations)}

----------------------------------------------------------------------------
\* The analysis engine (outside this file): after matching, every prediction
\* has an info dict, with matched_with either absent or the _id of a
\* ground-truth annotation.
EngineInfo(g) == IF g = None THEN <<>> ELSE [matched_with |-> g]

EngineMatch ==
    /\ pc = "imported"
    /\ LET panns == data[preds].annotations
       IN  \E m \in [1..Len(panns) -> IdsOf(heap, data, gts) \cup {None}] :
              /\ infos' = [i \in 1..Len(panns) |-> EngineInfo(m[i])]
              /\ heap' = [a \in DOMAIN heap |->
                            IF a \in Range(panns)
                            THEN Put(heap[a], "info", CHOOSE i \in 1..Len(panns) : panns[i] = a)
                            ELSE heap[a]]
    /\ pc' = "matched"
    /\ before' = Memory
    /\ call' = [op |-> "engine"]
    /\ UNCHANGED <<records, data, gts, preds, ret>>

----------------------------------------------------------------------------
\* create_filtered_Data

\* Variant: new_ann = ann, no copy; the retained annotation is the source dict.
copy_alias(h, a) == [heap |-> h, addr |-> a]

\* new_ann = copy(ann): a new dict with the same keys and the same values; a
\* value that is a reference (info) is the same reference.
copy(h, a) == [heap |-> Append(h, h[a]), addr |-> Len(h) + 1]

\* Variant: the loop without new_ann["_id"] = i.
RECURSIVE FilterLoop_no_renumber(_, _, _, _, _)
FilterLoop_no_renumber(h, kept, i, annotations, new_id_to_old_id) ==
    IF i > Len(kept)
    THEN [heap |-> h, annotations |-> annotations, new_id_to_old_id |-> new_id_to_old_id]
    ELSE LET ann == kept[i]
             old == h[ann]["_id"]
             c == copy(h, ann)
         IN  FilterLoop_no_renumber(c.heap, kept, i + 1, Append(annotations, c.addr),
                                    Put(new_id_to_old_id, i - 1, old))

\* Variant: the map is filled from new_ann["_id"] after it was overwritten.
RECURSIVE FilterLoop_map_after_renumber(_, _, _, _, _)
FilterLoop_map_after_renumber(h, kept, i, annotations, new_id_to_old_id) ==
    IF i > Len(kept)
    THEN [heap |-> h, annotations |-> annotations, new_id_to_old_id |-> new_id_to_old_id]
    ELSE LET ann == kept[i]
             c == copy(h, ann)
             h2 == [c.heap EXCEPT ![c.addr] = Put(@, "_id", i - 1)]
         IN  FilterLoop_map_after_renumber(h2, kept, i + 1, Append(annotations, c.addr),
                                           Put(new_id_to_old_id, i - 1, h2[c.addr]["_id"]))

\* The loop over the retained annotations; kept was computed before it started.
RECURSIVE FilterLoop(_, _, _, _, _)
FilterLoop(h, kept, i, annotations, new_id_to_old_id) ==
    IF i > Len(kept)
    THEN [heap |-> h, annotations |-> annotations, new_id_to_old_id |-> new_id_to_old_id]
    ELSE LET ann == kept[i]
             old == h[ann]["_id"]
             c == copy(h, ann)
             h2 == [c.heap EXCEPT ![c.addr] = Put(@, "_id", i - 1)]
         IN  FilterLoop(h2, kept, i + 1, Append(annotations, c.addr),
                        Put(new_id_to_old_id, i - 1, old))

\* [ann for ann in data.annotations if ann["_id"] in ids_keep]
Retained(h, anns, ids_keep) == SelectSeq(anns, LAMBDA a : h[a]["_id"] \in ids_keep)

\* create_filtered_Data(data[src], ids_keep): the memory after the call, the
\* address of the returned container and the returned dict.
create_filtered_Data(h, d, src, ids_keep) ==
    LET out == Len(d) + 1
        d1 == Append(d, NewData)
        loop == FilterLoop(h, Retained(h, d1[src].annotations, ids_keep), 1, <<>>, <<>>)
        d2 == [d1 EXCEPT ![out].annotations = loop.annotations]
        d3 == [d2 EXCEPT ![out].classes = ClassesOf(loop.heap, d2[out].annotations)]
        d4 == [d3 EXCEPT ![out].images = ImagesOf(loop.heap, d3[out].annotations)]
    IN  [heap |-> loop.heap, data |-> d4, out |-> out,
         new_id_to_old_id |-> loop.new_id_to_old_id]

\* The keep sets a caller passes for a container: any set of its positions,
\* and of one id past them.
KeepSets(d, x) == SUBSET (0..Len(d[x].annotations))

Filter ==
    /\ pc \in {"imported", "matched"}
    /\ \E src \in {gts, preds} : \E ids_keep \in KeepSets(data, src) :
          LET r == create_filtered_Data(heap, data, src, ids_keep)
          IN  /\ heap' = r.heap
              /\ data' = r.data
              /\ ret' = [outs |-> <<r.out>>, maps |-> <<r.new_id_to_old_id>>]
              /\ call' = [op |-> "create_filtered_Data", src |-> src,
                          ids_keep |-> ids_keep, ids_keep_after |-> ids_keep]
    /\ pc' = "returned"
    /\ before' = Memory
    /\ UNCHANGED <<records, infos, gts, preds>>

----------------------------------------------------------------------------
\* enlarge_dataset_to_respect_TIDE

\* pred['info'] for a prediction's address
InfoOf(h, inf, p) == inf[h[p]["info"]]

\* Variant: the comprehension without "and pred["_id"] in preds_keep".
assoc_gts_of_all(h, inf, panns, preds_keep) ==
    {InfoOf(h, inf, p)["matched_with"] :
        p \in {q \in Range(panns) : Has(InfoOf(h, inf, q), "matched_with")}}

\* {pred['info']['matched_with'] for pred in preds.annotations
\*    if "matched_with" in pred['info'] and pred["_id"] in preds_keep}
assoc_gts(h, inf, panns, preds_keep) ==
    {InfoOf(h, inf, p)["matched_with"] :
        p \in {q \in Range(panns) : /\ Has(InfoOf(h, inf, q), "matched_with")
                                    /\ h[q]["_id"] \in preds_keep}}

\* Variant: the union with assoc_gts is dropped.
filetered_gts_kept_only(gts_keep, assoc) ==
    [value |-> gts_keep, gts_keep |-> gts_keep]

\* set(gts_keep).union(assoc_gts): a new set; gts_keep is the caller's set
\* after the statement.
filetered_gts(gts_keep, assoc) ==
    [value |-> gts_keep \cup assoc, gts_keep |-> gts_keep]

\* {pred['_id'] for pred in preds.annotations
\*    if pred['info'].get("matched_with") in filetered_gts}
\* get gives None when the key is absent, and None is no id of a keep set.
assoc_preds(h, inf, panns, fgts) ==
    {h[p]["_id"] :
        p \in {q \in Range(panns) : /\ Has(InfoOf(h, inf, q), "matched_with")
                                    /\ InfoOf(h, inf, q)["matched_with"] \in fgts}}

\* assoc_preds.union(preds_keep): a new set
filetered_preds(assoc, preds_keep) ==
    [value |-> assoc \cup preds_keep, preds_keep |-> preds_keep]

\* Variant: the predictions are looked up against gts_keep, not filetered_gts.
enlarge_preds_from_gts_keep(h, inf, d, g, p, gts_keep, preds_keep) ==
    LET panns == d[p].annotations
        fg == filetered_gts(gts_keep, assoc_gts(h, inf, panns, preds_keep))
        fp == filetered_preds(assoc_preds(h, inf, panns, gts_keep), preds_keep)
        r1 == create_filtered_Data(h, d, g, fg.value)
        r2 == create_filtered_Data(r1.heap, r1.data, p, fp.value)
    IN  [heap |-> r2.heap, data |-> r2.data,
         outs |-> <<r1.out, r2.out>>,
         maps |-> <<r1.new_id_to_old_id, r2.new_id_to_old_id>>,
         gts_keep |-> fg.gts_keep, preds_keep |-> fp.preds_keep]

enlarge_dataset_to_respect_TIDE(h, inf, d, g, p, gts_keep, preds_keep) ==
    LET panns == d[p].annotations
        fg == filetered_gts(gts_keep, assoc_gts(h, inf, panns, preds_keep))
        fp == filetered_preds(assoc_preds(h, inf, panns, fg.value), preds_keep)
        r1 == create_filtered_Data(h, d, g, fg.value)
        r2 == create_filtered_Data(r1.heap, r1.data, p, fp.value)
    IN  [heap |-> r2.heap, data |-> r2.data,
         outs |-> <<r1.out, r2.out>>,
         maps |-> <<r1.new_id_to_old_id, r2.new_id_to_old_id>>,
         gts_keep |-> fg.gts_keep, preds_keep |-> fp.preds_keep]

\* pred['info'] raises KeyError for a prediction the engine has not touched.
AllHaveInfo(h, d, p) == \A a \in Range(d[p].annotations) : Has(h[a], "info")

Enlarge ==
    /\ pc \in {"imported", "matched"}
    /\ AllHaveInfo(heap, data, preds)
    /\ \E gts_keep \in KeepSets(data, gts) : \E preds_keep \in KeepSets(data, preds) :
          LET r == enlarge_dataset_to_respect_TIDE(heap, infos, data, gts, preds,
                                                   gts_keep, preds_keep)
          IN  /\ heap' = r.heap
              /\ data' = r.data
              /\ ret' = [outs |-> r.outs, maps |-> r.maps]
              /\ call' = [op |-> "enlarge_dataset_to_respect_TIDE",
                          gts_keep |-> gts_keep, preds_keep |-> preds_keep,
                          gts_keep_after |-> r.gts_keep,
                          preds_keep_after |-> r.preds_keep]
    /\ pc' = "returned"
    /\ before' = Memory
    /\ UNCHANGED <<records, infos, gts, preds>>

EnlargeRaises ==
    /\ pc \in {"imported", "matched"}
    /\ ~AllHaveInfo(heap, data, preds)
    /\ pc' = "raised"
    /\ before' = Memory
    /\ call' = [op |-> "enlarge_dataset_to_respect_TIDE"]
    /\ UNCHANGED <<records, heap, infos, data, gts, preds, ret>>

----------------------------------------------------------------------------
\* filter_dataset_to_label

\* {gt["_id"] for gt in gts.annotations if gt["class"]==cls_id}
ids_of_class(h, anns, cls_id) ==
    {h[a]["_id"] : a \in {b \in Range(anns) : h[b]["class"] = cls_id}}

filter_dataset_to_label(h, d, g, p, cls_id) ==
    LET gts_ids == ids_of_class(h, d[g].annotations, cls_id)
        preds_ids == ids_of_class(h, d[p].annotations, cls_id)
        r1 == create_filtered_Data(h, d, g, gts_ids)
        r2 == create_filtered_Data(r1.heap, r1.data, p, preds_ids)
    IN  [heap |-> r2.heap, data |-> r2.data, outs |-> <<r1.out, r2.out>>]

Label ==
    /\ pc \in {"imported", "matched"}
    /\ \E cls_id \in Classes :
          LET r == filter_dataset_to_label(heap, data, gts, preds, cls_id)
          IN  /\ heap' = r.heap
              /\ data' = r.data
              /\ ret' = [outs |-> r.outs, maps |-> <<>>]
              /\ call' = [op |-> "filter_dataset_to_label", cls_id |-> cls_id]
    /\ pc' = "returned"
    /\ before' = Memory
    /\ UNCHANGED <<records, infos, gts, preds>>

\* The caller runs the enlarger again on the ids it got back.
EnlargeAgain ==
    /\ pc = "returned"
    /\ call.op = "enlarge_dataset_to_respect_TIDE"
    /\ LET gts_keep == Values(ret.maps[1])
           preds_keep == Values(ret.maps[2])
           r == enlarge_dataset_to_respect_TIDE(heap, infos, data, gts, preds,
                                                gts_keep, preds_keep)
       IN  /\ heap' = r.heap
           /\ data' = r.data
           /\ ret' = [outs |-> r.outs, maps |-> r.maps]
           /\ call' = [op |-> "enlarge_dataset_to_respect_TIDE",
                       gts_keep |-> gts_keep, preds_keep |-> preds_keep,
                       gts_keep_after |-> r.gts_keep,
                       preds_keep_after |-> r.preds_keep,
                       first |-> ret.maps,
                       asked |-> <<call.gts_keep, call.preds_keep>>]
    /\ pc' = "rerun"
    /\ before' = Memory
    /\ UNCHANGED <<records, infos, gts, preds>>

----------------------------------------------------------------------------
\* What a caller (or the engine, run on the filtered data) does with a
\* filtered container and its source afterwards.

\* ann[key] = value on one annotation of container x
WriteField(x, target) ==
    /\ \E a \in Range(data[x].annotations) :
          heap' = [heap EXCEPT ![a] = Put(@, "ignore", TRUE)]
    /\ pc' = "written"
    /\ call' = [op |-> "write", target |-> target, src |-> call.src]
    /\ before' = Memory
    /\ UNCHANGED <<records, infos, data, gts, preds, ret>>

\* ann["info"]["matched_with"] = g on one annotation of container x
WriteInfo(x, target) ==
    /\ \E a \in Range(data[x].annotations) :
          /\ Has(heap[a], "info")
          /\ \E g \in IdsOf(heap, data, gts) :
                infos' = [infos EXCEPT ![heap[a]["info"]] = Put(@, "matched_with", g)]
    /\ pc' = "written"
    /\ call' = [op |-> "write", target |-> target, src |-> call.src]
    /\ before' = Memory
    /\ UNCHANGED <<records, heap, data, gts, preds, ret>>

Filtered == pc = "returned" /\ call.op = "create_filtered_Data"

WriteReturnedField == Filtered /\ WriteField(ret.outs[1], "returned")
WriteReturnedInfo == Filtered /\ WriteInfo(ret.outs[1], "returned")
WriteSourceField == Filtered /\ WriteField(call.src, "source")
WriteSourceInfo == Filtered /\ WriteInfo(call.src, "source")

----------------------------------------------------------------------------
\* The whole pipeline on any records.
Next ==
    \/ Import
    \/ EngineMatch
    \/ Filter
    \/ Enlarge
    \/ EnlargeRaises
    \/ Label
    \/ WriteReturnedField
    \/ WriteReturnedInfo
    \/ WriteSourceField
    \/ WriteSourceInfo

Spec == Init /\ [][Next]_vars

\* The whole pipeline on records tagged once.
SpecTaggedOnce == InitTaggedOnce /\ [][Next]_vars

\* The import and the two filters that need no match links.
NextFilter ==
    \/ Import
    \/ Filter
    \/ Label

SpecFilter == Init /\ [][NextFilter]_vars

\* The import, the engine and every filtering operation, on plain records.
NextEnlarge ==
    \/ Import
    \/ EngineMatch
    \/ Filter
    \/ Enlarge
    \/ EnlargeRaises
    \/ EnlargeAgain
    \/ Label

SpecEnlarge == InitPlain /\ [][NextEnlarge]_vars
----------------------------------------------------------------------------
\* Properties

EnlargeOp == "enlarge_dataset_to_respect_TIDE"

Enlarged == pc \in {"returned", "rerun"} /\ call.op = EnlargeOp

\* The predictions of the source container and their match links.
PredAnns == Range(data[preds].annotations)
HasMatch(p) == Has(InfoOf(heap, infos, p), "matched_with")
MatchOf(p) == InfoOf(heap, infos, p)["matched_with"]

\* The original ids the returned maps name.
GtVals == Values(ret.maps[1])
PredVals == Values(ret.maps[2])

\* C1: after the enlarger returns, the ground truth every kept prediction is
\* matched with is among the original ids of the returned ground-truth map, and
\* every prediction matched with a ground truth of that map, kept or not, is
\* among the original ids of the returned prediction map.
EnlargerClosure ==
    Enlarged =>
        /\ \A p \in PredAnns :
              (heap[p]["_id"] \in call.preds_keep /\ HasMatch(p)) => MatchOf(p) \in GtVals
        /\ \A g \in GtVals : \A p \in PredAnns :
              (HasMatch(p) /\ MatchOf(p) = g) => heap[p]["_id"] \in PredVals

\* Only p is kept, p and q are matched with g, and g and q were both pulled in.
EnlargerClosureWitness ==
    /\ pc = "returned"
    /\ call.op = EnlargeOp
    /\ call.gts_keep = {}
    /\ \E p, q \in PredAnns :
          /\ p # q
          /\ call.preds_keep = {heap[p]["_id"]}
          /\ HasMatch(p) /\ HasMatch(q) /\ MatchOf(p) = MatchOf(q)
          /\ MatchOf(p) \in GtVals
          /\ {heap[p]["_id"], heap[q]["_id"]} = PredVals

\* C2: running the enlarger again on the original ids it returned returns maps
\* with the same sets of original ids.
EnlargerFixpoint ==
    pc = "rerun" =>
        /\ Values(ret.maps[1]) = Values(call.first[1])
        /\ Values(ret.maps[2]) = Values(call.first[2])

\* A second run after a first run that added a ground truth and a prediction.
EnlargerFixpointWitness ==
    /\ pc = "rerun"
    /\ \E g \in Values(call.first[1]) : g \notin call.asked[1]
    /\ \E p \in Values(call.first[2]) : p \notin call.asked[2]
    /\ Values(ret.maps[2]) # {}

\* One step of closing a pair of id sets under the match links, each direction
\* from the sets as they are.
LinkStep(G, P) ==
    <<G \cup {MatchOf(p) : p \in {q \in PredAnns : HasMatch(q) /\ heap[q]["_id"] \in P}},
      P \cup {heap[p]["_id"] : p \in {q \in PredAnns : HasMatch(q) /\ MatchOf(q) \in G}}>>

\* The least pair of id sets that contains G and P and is closed under the links.
RECURSIVE LeastClosed(_, _)
LeastClosed(G, P) ==
    LET n == LinkStep(G, P)
    IN  IF n = <<G, P>> THEN n ELSE LeastClosed(n[1], n[2])

\* C10: the enlarger adds nothing the links do not force: every returned
\* ground truth is kept or matched with a kept prediction, every returned
\* prediction is kept or matched with a returned ground truth, every kept id
\* that exists is returned, and the returned pair is the least closed pair
\* containing the kept ids.
EnlargerMinimal ==
    (pc = "returned" /\ call.op = EnlargeOp) =>
        LET gk == call.gts_keep \cap IdsOf(heap, data, gts)
            pk == call.preds_keep \cap IdsOf(heap, data, preds)
        IN  /\ \A g \in GtVals :
                  \/ g \in call.gts_keep
                  \/ \E p \in PredAnns :
                        heap[p]["_id"] \in call.preds_keep /\ HasMatch(p) /\ MatchOf(p) = g
            /\ \A i \in PredVals :
                  \/ i \in call.preds_keep
                  \/ \E p \in PredAnns :
                        heap[p]["_id"] = i /\ HasMatch(p) /\ MatchOf(p) \in GtVals
            /\ gk \subseteq GtVals
            /\ pk \subseteq PredVals
            /\ <<GtVals, PredVals>> = LeastClosed(gk, pk)

\* A matched prediction and a ground truth nothing links to the kept ids stay out.
EnlargerMinimalWitness ==
    /\ pc = "returned"
    /\ call.op = EnlargeOp
    /\ call.gts_keep # {}
    /\ GtVals # {}
    /\ \E p \in PredAnns : HasMatch(p) /\ heap[p]["_id"] \notin PredVals
    /\ \E g \in IdsOf(heap, data, gts) : g \notin GtVals

\* C6: a filtering call leaves every dict, info dict and container that
\* existed before it as it was, leaves the caller's keep sets as they were,
\* and returns containers that did not exist before.
InputsUntouched ==
    (pc \in {"returned", "rerun"}) =>
        /\ SubSeq(heap, 1, Len(before.heap)) = before.heap
        /\ SubSeq(infos, 1, Len(before.infos)) = before.infos
        /\ SubSeq(data, 1, Len(before.data)) = before.data
        /\ call.op = "create_filtered_Data" => call.ids_keep_after = call.ids_keep
        /\ call.op = EnlargeOp =>
              /\ call.gts_keep_after = call.gts_keep
              /\ call.preds_keep_after = call.preds_keep
        /\ \A k \in 1..Len(ret.outs) :
              /\ ret.outs[k] \notin DOMAIN before.data
              /\ \A j \in 1..Len(ret.outs) : ret.outs[j] = ret.outs[k] => j = k

\* The enlarger added a ground truth to the kept ids and returned a prediction
\* under a new _id.
InputsUntouchedWitness ==
    /\ pc = "returned"
    /\ call.op = EnlargeOp
    /\ ~(GtVals \subseteq call.gts_keep)
    /\ \E k \in DOMAIN ret.maps[2] : ret.maps[2][k] # k

----------------------------------------------------------------------------
\* The Indexed Dataset invariants of the container at address x.
DenseIds(x) ==
    \A i \in 1..Len(data[x].annotations) : heap[data[x].annotations[i]]["_id"] = i - 1

ImagesConsistent(x) ==
    LET anns == Range(data[x].annotations)
        images == data[x].images
    IN  /\ \A img \in DOMAIN images : \A id \in Range(images[img].anns) :
              \E a \in anns : heap[a]["_id"] = id /\ heap[a]["image_id"] = img
        /\ \A a \in anns :
              /\ heap[a]["image_id"] \in DOMAIN images
              /\ Cardinality({i \in 1..Len(images[heap[a]["image_id"]].anns) :
                    images[heap[a]["image_id"]].anns[i] = heap[a]["_id"]}) = 1

ClassesExact(x) ==
    DOMAIN data[x].classes = {heap[a]["class"] : a \in Range(data[x].annotations)}

IndexedDataset(x) == DenseIds(x) /\ ImagesConsistent(x) /\ ClassesExact(x)

\* C3: every container a filter returns has dense ids in list order, images
\* that list exactly its annotations' ids under their image, and classes keyed
\* by exactly its annotations' classes.
FilterPreservesInvariants ==
    pc = "returned" => \A k \in 1..Len(ret.outs) : IndexedDataset(ret.outs[k])

\* The second of two annotations of one image was kept and renumbered to 0.
FilterPreservesInvariantsWitness ==
    /\ Filtered
    /\ Len(before.data[call.src].annotations) = 2
    /\ IndexedDataset(call.src)
    /\ call.ids_keep = {1}
    /\ Len(data[ret.outs[1]].annotations) = 1
    /\ \E img \in ImageIds :
          /\ \A a \in Range(data[call.src].annotations) : heap[a]["image_id"] = img
          /\ DOMAIN data[ret.outs[1]].images = {img}
          /\ data[ret.outs[1]].images[img].anns = <<0>>

\* The annotations of the source whose _id the caller asked to keep, in order.
Asked == SelectSeq(before.data[call.src].annotations,
                   LAMBDA a : before.heap[a]["_id"] \in call.ids_keep)

\* C4: the filter returns copies of exactly the source annotations whose _id
\* is in the keep set, in their order, the k-th with _id k, and a map with keys
\* 0..K-1 that gives each its original _id; an empty keep set gives an empty
\* container and an empty map.
FilterSelectsAndRenumbers ==
    Filtered =>
        LET out == data[ret.outs[1]]
            m == ret.maps[1]
        IN  /\ Len(out.annotations) = Len(Asked)
            /\ DOMAIN m = 0..(Len(Asked) - 1)
            /\ \A k \in 1..Len(Asked) :
                  /\ Del(heap[out.annotations[k]], "_id") = Del(before.heap[Asked[k]], "_id")
                  /\ heap[out.annotations[k]]["_id"] = k - 1
                  /\ m[k - 1] = before.heap[Asked[k]]["_id"]
            /\ call.ids_keep = {} =>
                  /\ out.annotations = <<>>
                  /\ DOMAIN out.classes = {}
                  /\ DOMAIN out.images = {}
                  /\ DOMAIN m = {}

\* The keep set names the second of two annotations and an id the source lacks.
FilterSelectsAndRenumbersWitness ==
    /\ Filtered
    /\ IdsOf(before.heap, before.data, call.src) = {0, 1}
    /\ call.ids_keep = {1, 2}
    /\ ret.maps[1] = [k \in {0} |-> 1]

----------------------------------------------------------------------------
\* C7: when the importer returns, the i-th gold record is the i-th ground
\* truth with _id i and class its gold label, the j-th pred record is the j-th
\* prediction with _id j, class its pred label and score its confidence, and
\* both containers satisfy the Indexed Dataset invariants.
ImporterContract ==
    pc = "imported" =>
        LET ganns == data[gts].annotations
            panns == data[preds].annotations
        IN  /\ ganns = SelectSeq(records, LAMBDA a : before.heap[a]["is_gold"])
            /\ panns = SelectSeq(records, LAMBDA a : before.heap[a]["is_pred"])
            /\ \A i \in 1..Len(ganns) :
                  /\ heap[ganns[i]]["_id"] = i - 1
                  /\ heap[ganns[i]]["class"] = before.heap[ganns[i]]["gold"]
            /\ \A j \in 1..Len(panns) :
                  /\ heap[panns[j]]["_id"] = j - 1
                  /\ heap[panns[j]]["class"] = before.heap[panns[j]]["pred"]
                  /\ heap[panns[j]]["score"] = before.heap[panns[j]]["confidence"]
            /\ IndexedDataset(gts)
            /\ IndexedDataset(preds)

\* No record is tagged both gold and pred.
SingleTagged == \A a \in Range(records) : ~(heap[a]["is_gold"] /\ heap[a]["is_pred"])

\* The importer's contract on records tagged at most once.
ImporterContractSingleTagged == SingleTagged => ImporterContract

\* C8: filtering a container to the full set of its own ids returns the
\* identity map and a container with the same annotations, classes and images.
FilterIdempotent ==
    (Filtered /\ call.ids_keep = IdsOf(before.heap, before.data, call.src)) =>
        LET src == before.data[call.src]
            out == data[ret.outs[1]]
        IN  /\ ret.maps[1] = [k \in 0..(Len(src.annotations) - 1) |-> k]
            /\ Len(out.annotations) = Len(src.annotations)
            /\ \A k \in 1..Len(src.annotations) :
                  k <= Len(out.annotations) =>
                      heap[out.annotations[k]] = before.heap[src.annotations[k]]
            /\ out.classes = src.classes
            /\ out.images = src.images

FilterIdempotentSingleTagged == SingleTagged => FilterIdempotent

\* The annotations of container x that have class c, without their _id.
OfClass(x, c) ==
    LET sel == SelectSeq(before.data[x].annotations, LAMBDA a : before.heap[a]["class"] = c)
    IN  [i \in 1..Len(sel) |-> Del(before.heap[sel[i]], "_id")]

\* C9: the class filter returns, for each side, copies of exactly the source
\* annotations of the class, in order and renumbered from 0, so that every
\* returned annotation has the class and no other class is a key of classes.
ClassFilterExact ==
    (pc = "returned" /\ call.op = "filter_dataset_to_label") =>
        \A k \in 1..2 :
            LET x == <<gts, preds>>[k]
                out == data[ret.outs[k]]
            IN  /\ [i \in 1..Len(out.annotations) |-> Del(heap[out.annotations[i]], "_id")]
                      = OfClass(x, call.cls_id)
                /\ DenseIds(ret.outs[k])
                /\ \A a \in Range(out.annotations) : heap[a]["class"] = call.cls_id
                /\ DOMAIN out.classes \subseteq {call.cls_id}

ClassFilterExactSingleTagged == SingleTagged => ClassFilterExact

----------------------------------------------------------------------------
\* What is reachable from container x: the container, its annotation dicts and
\* their info dicts.
DeepAnn(m, a) ==
    IF Has(m.heap[a], "info")
    THEN Put(m.heap[a], "info", m.infos[m.heap[a]["info"]])
    ELSE m.heap[a]

View(m, x) ==
    [container |-> m.data[x],
     annotations |-> [i \in 1..Len(m.data[x].annotations) |-> DeepAnn(m, m.data[x].annotations[i])]]

\* C5: a write to the returned container or to anything reachable from it
\* leaves the source as it was, and a write to the source leaves the returned
\* container as it was.
FilteredIndependent ==
    pc = "written" =>
        /\ call.target = "returned" => View(Memory, call.src) = View(before, call.src)
        /\ call.target = "source" => View(Memory, ret.outs[1]) = View(before, ret.outs[1])

\* The same for writes of an annotation's own keys only.
FilteredIndependentTopLevel ==
    (pc = "written" /\ infos = before.infos) => FilteredIndependent
====
